---- MODULE Spec2Model ----
(***************************************************************************)
(* Model of the docify procedural macro of the pretty-readme crate         *)
(* (src/src/lib.rs).  Texts are sequences of one-character strings, so the  *)
(* regular expression and the literal replace work on characters exactly   *)
(* as the regex crate and str::replace do.                                 *)
(***************************************************************************)
EXTENDS Naturals, Sequences, FiniteSets

\* The backtick character (the only character written by its name: a string
\* cannot hold a backtick), carriage return and line feed.
BT == "backtick"
CR == "\r"
LF == "\n"

\* The three backticks that open and close the pattern.
Fence == <<BT, BT, BT>>

\* The alternatives of group 1, (rust|rs), in the order the pattern lists them.
TagAlt == << <<"r", "u", "s", "t">>, <<"r", "s">> >>

\* The alternatives of groups 2 and 4, (\r\n|\r|\n), in the order the pattern lists them.
NlAlt == << <<CR, LF>>, <<CR>>, <<LF>> >>

\* The text the replacement template puts between the second and third $4:
\* # Ok::<(), Box<dyn std::error::Error>>(())
Marker ==
  <<"#", " ", "O", "k", ":", ":", "<", "(", ")", ",", " ", "B", "o", "x", "<",
    "d", "y", "n", " ", "s", "t", "d", ":", ":", "e", "r", "r", "o", "r", ":",
    ":", "E", "r", "r", "o", "r", ">", ">", "(", "(", ")", ")">>

\* Simple case folding of the letters of the tag (case_insensitive(true)).  The
\* texts of the model hold ASCII characters only.
Fold(c) ==
  CASE c = "R" -> "r"
    [] c = "U" -> "u"
    [] c = "S" -> "s"
    [] c = "T" -> "t"
    [] OTHER -> c

Min(S) == CHOOSE x \in S : \A y \in S : x <= y

\* The literal w stands in d at index i.
IsAt(d, i, w) ==
  /\ i >= 1
  /\ i + Len(w) - 1 <= Len(d)
  /\ \A j \in 1..Len(w) : d[i + j - 1] = w[j]

\* Variant of IsAtCI: the tag is matched with its letter case respected.
IsAtCaseSensitive(d, i, w) == IsAt(d, i, w)

\* The literal w stands in d at index i, letter case ignored.
IsAtCI(d, i, w) ==
  /\ i >= 1
  /\ i + Len(w) - 1 <= Len(d)
  /\ \A j \in 1..Len(w) : Fold(d[i + j - 1]) = w[j]

\* Group 4 followed by the closing backticks at index e: the number of the first
\* alternative of (\r\n|\r|\n) that matches there with ``` right after it, or 0.
CloseAt(d, e) ==
  IF IsAt(d, e, NlAlt[1]) /\ IsAt(d, e + Len(NlAlt[1]), Fence) THEN 1
  ELSE IF IsAt(d, e, NlAlt[2]) /\ IsAt(d, e + Len(NlAlt[2]), Fence) THEN 2
  ELSE IF IsAt(d, e, NlAlt[3]) /\ IsAt(d, e + Len(NlAlt[3]), Fence) THEN 3
  ELSE 0

\* Group 3, (.+?) with dot_matches_new_line: the body starts at k, holds at
\* least one character of any kind, and is the shortest one that group 4 and
\* the closing backticks follow.  The index where group 4 starts, or 0.
BodyEnd(d, k) ==
  LET ends == {e \in (k + 1)..Len(d) : (d[e] = CR \/ d[e] = LF) /\ CloseAt(d, e) # 0}
  IN IF ends = {} THEN 0 ELSE Min(ends)

\* The pattern after the opening backticks at index i, with alternative a of
\* group 1 and alternative b of group 2: the index where group 4 starts, or 0
\* when this branch fails.
Try(d, i, a, b) ==
  IF /\ IsAtCI(d, i + 3, TagAlt[a])
     /\ IsAt(d, i + 3 + Len(TagAlt[a]), NlAlt[b])
  THEN BodyEnd(d, i + 3 + Len(TagAlt[a]) + Len(NlAlt[b]))
  ELSE 0

\* The branches of groups 1 and 2 in the order a backtracking search takes them.
Branches == <<<<1, 1>>, <<1, 2>>, <<1, 3>>, <<2, 1>>, <<2, 2>>, <<2, 3>>>>

NoMatch == [start |-> 0, e |-> 0, nl |-> <<>>, stop |-> 0]

\* The branches n.. tried in order at index i: the first that succeeds wins
\* (leftmost-first semantics).
RECURSIVE TryFrom(_, _, _)
TryFrom(d, i, n) ==
  IF n > Len(Branches) THEN NoMatch
  ELSE LET e == Try(d, i, Branches[n][1], Branches[n][2])
       IN IF e = 0 THEN TryFrom(d, i, n + 1)
          ELSE LET nl == NlAlt[CloseAt(d, e)]
               IN [start |-> i, e |-> e, nl |-> nl, stop |-> e + Len(nl) + 2]

\* The match of the whole pattern that starts at index i: start, the index e
\* where group 4 starts, the text nl of group 4, and the index stop of the last
\* closing backtick.  NoMatch when no branch succeeds.
MatchAt(d, i) == IF IsAt(d, i, Fence) THEN TryFrom(d, i, 1) ELSE NoMatch

\* The leftmost match that starts at or after pos: the indices where three
\* backticks and the first letter of both tags stand are tried from left to
\* right.
RECURSIVE FirstMatch(_, _)
FirstMatch(d, pos) ==
  LET starts == {i \in pos..(Len(d) - 3) :
                   d[i] = BT /\ d[i + 1] = BT /\ d[i + 2] = BT /\ Fold(d[i + 3]) = "r"}
  IN IF starts = {} THEN NoMatch
     ELSE LET m == MatchAt(d, Min(starts))
          IN IF m.start # 0 THEN m ELSE FirstMatch(d, Min(starts) + 1)

\* The non-overlapping matches of replace_all, in document order.
RECURSIVE MatchesFrom(_, _)
MatchesFrom(d, pos) ==
  LET m == FirstMatch(d, pos)
  IN IF m.start = 0 THEN <<>> ELSE <<m>> \o MatchesFrom(d, m.stop + 1)

Matches(d) == MatchesFrom(d, 1)

\* Variant of Expand: the template holds group 4 once before the marker.
ExpandOneBreak(d, m) ==
  SubSeq(d, m.start, m.e - 1) \o m.nl \o Marker \o m.nl \o Fence

\* Variant of Expand: a body that already ends with the marker is left alone.
ExpandDedup(d, m) ==
  IF IsAt(d, m.e - Len(Marker), Marker)
  THEN SubSeq(d, m.start, m.stop)
  ELSE SubSeq(d, m.start, m.e - 1) \o m.nl \o m.nl \o Marker \o m.nl \o Fence

\* The replacement template "```$1$2$3$4$4# Ok::<(), Box<dyn std::error::Error>>(())$4```"
\* expanded for match m: the matched text up to and including group 4, then
\* group 4 again, the marker, group 4 once more and the closing backticks.
Expand(d, m) ==
  SubSeq(d, m.start, m.e - 1) \o m.nl \o m.nl \o Marker \o m.nl \o Fence

\* re.replace_all(&readme, template): the text between the matches is copied,
\* each match is replaced by its expansion.
RECURSIVE ReplaceAllFrom(_, _)
ReplaceAllFrom(d, pos) ==
  LET m == FirstMatch(d, pos)
  IN IF m.start = 0 THEN SubSeq(d, pos, Len(d))
     ELSE SubSeq(d, pos, m.start - 1) \o Expand(d, m) \o ReplaceAllFrom(d, m.stop + 1)

ReplaceAll(d) == ReplaceAllFrom(d, 1)

\* str::replace(from, to): the occurrences of from are found left to right
\* without overlap and each is replaced by to; an empty from matches at every
\* character boundary.
RECURSIVE Interleave(_, _, _)
Interleave(d, pos, to) ==
  IF pos > Len(d) THEN to ELSE to \o <<d[pos]>> \o Interleave(d, pos + 1, to)

\* The leftmost occurrence of the non-empty from at or after pos, or 0.
Find(d, pos, from) ==
  LET at == {i \in pos..Len(d) : d[i] = from[1] /\ IsAt(d, i, from)}
  IN IF at = {} THEN 0 ELSE Min(at)

\* Variant of StrReplaceFrom: only the first occurrence is replaced.
ReplaceFirstFrom(d, pos, from, to) ==
  IF from = <<>> THEN to \o SubSeq(d, pos, Len(d))
  ELSE LET i == Find(d, pos, from)
       IN IF i = 0 THEN SubSeq(d, pos, Len(d))
          ELSE SubSeq(d, pos, i - 1) \o to \o SubSeq(d, i + Len(from), Len(d))

RECURSIVE StrReplaceFrom(_, _, _, _)
StrReplaceFrom(d, pos, from, to) ==
  IF from = <<>> THEN Interleave(d, pos, to)
  ELSE LET i == Find(d, pos, from)
       IN IF i = 0 THEN SubSeq(d, pos, Len(d))
          ELSE SubSeq(d, pos, i - 1) \o to \o StrReplaceFrom(d, i + Len(from), from, to)

StrReplace(d, from, to) == StrReplaceFrom(d, 1, from, to)


(***************************************************************************)
(* The inputs: the macro's argument list, the substitution request and the *)
(* readme file, drawn from bounded sets.                                   *)
(***************************************************************************)

\* Most arguments of one macro call.
MaxArgs == 4

\* Most segments of one readme.
MaxSegs == 3

\* A macro argument is a string literal or some other token.
ArgLists == UNION {[1..n -> {"lit", "other"}] : n \in 0..MaxArgs}

RECURSIVE Concat(_)
Concat(ss) == IF ss = <<>> THEN <<>> ELSE Head(ss) \o Concat(Tail(ss))

\* A fenced region: the opening line, the body lines and the closing line, each
\* ended by the line break nl.  head runs up to the closing backticks, tail
\* starts with them.
MkBlock(kind, opener, nl, lines) ==
  [kind |-> kind, nl |-> nl,
   head |-> opener \o nl \o Concat([i \in 1..Len(lines) |-> lines[i] \o nl]),
   tail |-> Fence \o nl]

\* The pieces a readme is made of.  Kinds: "rust" is a rust/rs block whose body
\* holds text, "blank" a rust/rs block whose body is one empty line, "empty" a
\* rust/rs fence pair without body lines, "other" a block with another tag or
\* none, "midline" and "fourtick" an opening ```rs that is not a line of its
\* own, "text" a line of prose with two links, a run of three a and an @.
Segments ==
  << MkBlock("rust", Fence \o <<"r", "u", "s", "t">>, <<LF>>, << <<"a">> >>),
     MkBlock("rust", Fence \o <<"R", "S">>, <<CR, LF>>, << <<"a">>, <<"b">> >>),
     MkBlock("rust", Fence \o <<"r", "s">>, <<CR>>, << <<"a">> >>),
     MkBlock("other", Fence \o <<"j", "s">>, <<LF>>, << <<"a">> >>),
     MkBlock("other", Fence, <<CR, LF>>, << <<"a">> >>),
     MkBlock("empty", Fence \o <<"r", "s">>, <<LF>>, <<>>),
     MkBlock("blank", Fence \o <<"r", "s">>, <<CR, LF>>, << <<>> >>),
     MkBlock("midline", <<"x">> \o Fence \o <<"r", "s">>, <<LF>>, << <<"a">> >>),
     MkBlock("fourtick", <<BT>> \o Fence \o <<"r", "s">>, <<LF>>, << <<"a">> >>),
     [kind |-> "text", nl |-> <<LF>>,
      head |-> <<"/", "/", "d", "/", "a", "a", "a", "@", "/", "/", "d", "/", LF>>,
      tail |-> <<>>] >>

SegText(s) == Segments[s].head \o Segments[s].tail

\* The file contents made of the segments ss.
DocText(ss) == Concat([j \in 1..Len(ss) |-> SegText(ss[j])])

Docs == UNION {[1..n -> 1..Len(Segments)] : n \in 0..MaxSegs}

\* Most blocks of a readme made of well-formed blocks only.
MaxBlocks == 4

\* The segments that are well-formed blocks with text in the body, or prose.
WellFormed == {s \in 1..Len(Segments) : Segments[s].kind \in {"rust", "other", "text"}}

BlockDocs == UNION {[1..n -> WellFormed] : n \in 0..MaxBlocks}

\* The substitution requests: a docs URL made relative, a target that overlaps
\* itself, a target that occurs in the marker, and a replacement that is a
\* rust block.
Pairs ==
  << [from |-> <<"/", "/", "d", "/">>, to |-> <<".", "/">>],
     [from |-> <<"a", "a">>, to |-> <<"a">>],
     [from |-> <<"O", "k">>, to |-> <<"N", "o">>],
     [from |-> <<"@">>, to |-> Fence \o <<"r", "s", LF, "b", LF>> \o Fence] >>

(***************************************************************************)
(* The state of one call of docify.                                        *)
(***************************************************************************)
VARIABLES
  pc,           \* the statement docify executes next
  input,        \* the macro's argument list
  text,         \* the second argument's value
  replacement,  \* the third argument's value
  segs,         \* the segments the file on disk is made of
  contents,     \* what fs::read_to_string returned
  readme,       \* the readme after replace_all
  output,       \* what docify returns
  calls         \* the calls docify has made so far, in order

vars == <<pc, input, text, replacement, segs, contents, readme, output, calls>>

NoOutput == [kind |-> "none", msg |-> "", text |-> <<>>]

CompileError(msg) == [kind |-> "compile_error", msg |-> msg, text |-> <<>>]

Tokens(t) == [kind |-> "tokens", msg |-> "", text |-> t]

Init ==
  /\ pc = "parse"
  /\ input = <<>>
  /\ text = <<>>
  /\ replacement = <<>>
  /\ segs = <<>>
  /\ contents = <<>>
  /\ readme = <<>>
  /\ output = NoOutput
  /\ calls = <<>>

\* Args::parse_terminated fails: some argument is no string literal.  The
\* parser's own error is returned.
ParseFail ==
  /\ pc = "parse"
  /\ \E a \in ArgLists :
       /\ \E i \in 1..Len(a) : a[i] # "lit"
       /\ input' = a
  /\ output' = CompileError("syn")
  /\ pc' = "done"
  /\ UNCHANGED <<text, replacement, segs, contents, readme, calls>>

\* Variant of ShapeFail: the count of the arguments is looked at only after the
\* file was looked for.
ShapeFailAfterIsFile ==
  /\ pc = "parse"
  /\ \E a \in ArgLists :
       /\ \A i \in 1..Len(a) : a[i] = "lit"
       /\ Len(a) # 3
       /\ input' = a
  /\ calls' = Append(calls, "is_file")
  /\ output' = CompileError("expected_shape")
  /\ pc' = "done"
  /\ UNCHANGED <<text, replacement, segs, contents, readme>>

\* The arguments are string literals but not three of them.
ShapeFail ==
  /\ pc = "parse"
  /\ \E a \in ArgLists :
       /\ \A i \in 1..Len(a) : a[i] = "lit"
       /\ Len(a) # 3
       /\ input' = a
  /\ output' = CompileError("expected_shape")
  /\ pc' = "done"
  /\ UNCHANGED <<text, replacement, segs, contents, readme, calls>>

\* Three string literals: path, text and replacement are bound.  P is the set
\* of substitution requests the call may carry.
ArgsOkOf(P) ==
  /\ pc = "parse"
  /\ input' = <<"lit", "lit", "lit">>
  /\ \E p \in P :
       /\ text' = Pairs[p].from
       /\ replacement' = Pairs[p].to
  /\ pc' = "is_file"
  /\ UNCHANGED <<segs, contents, readme, output, calls>>

\* readme_path.is_file() is false.
NotFound ==
  /\ pc = "is_file"
  /\ calls' = Append(calls, "is_file")
  /\ output' = CompileError("not_found")
  /\ pc' = "done"
  /\ UNCHANGED <<input, text, replacement, segs, contents, readme>>

\* readme_path.is_file() is true.
IsFile ==
  /\ pc = "is_file"
  /\ calls' = Append(calls, "is_file")
  /\ pc' = "read"
  /\ UNCHANGED <<input, text, replacement, segs, contents, readme, output>>

\* fs::read_to_string fails.
ReadFail ==
  /\ pc = "read"
  /\ calls' = Append(calls, "read_to_string")
  /\ output' = CompileError("read_error")
  /\ pc' = "done"
  /\ UNCHANGED <<input, text, replacement, segs, contents, readme>>

\* fs::read_to_string returns the contents of the file.  D is the set of
\* files that may be on disk.
ReadOkOf(D) ==
  /\ pc = "read"
  /\ calls' = Append(calls, "read_to_string")
  /\ \E ss \in D :
       /\ segs' = ss
       /\ contents' = DocText(ss)
  /\ pc' = "augment"
  /\ UNCHANGED <<input, text, replacement, readme, output>>

ArgsOk == ArgsOkOf(1..Len(Pairs))

ReadOk == ReadOkOf(Docs)

\* The marker is inserted at the end of the Rust code blocks.
Augment ==
  /\ pc = "augment"
  /\ readme' = ReplaceAll(contents)
  /\ calls' = Append(calls, "replace_all")
  /\ pc' = "replace"
  /\ UNCHANGED <<input, text, replacement, segs, contents, output>>

\* Variant of Substitute: the blocks are augmented after the replacement.
SubstituteFirst ==
  /\ pc = "replace"
  /\ output' = Tokens(ReplaceAll(StrReplace(contents, text, replacement)))
  /\ calls' = Append(calls, "replace")
  /\ pc' = "done"
  /\ UNCHANGED <<input, text, replacement, segs, contents, readme>>

\* The docs URL is replaced and the result returned.
Substitute ==
  /\ pc = "replace"
  /\ output' = Tokens(StrReplace(readme, text, replacement))
  /\ calls' = Append(calls, "replace")
  /\ pc' = "done"
  /\ UNCHANGED <<input, text, replacement, segs, contents, readme>>

Next ==
  \/ ParseFail
  \/ ShapeFail
  \/ ArgsOk
  \/ NotFound
  \/ IsFile
  \/ ReadFail
  \/ ReadOk
  \/ Augment
  \/ Substitute

Spec == Init /\ [][Next]_vars

\* The same call on readmes of up to MaxBlocks well-formed blocks, with the
\* docs URL request.
ArgsOkUrl == ArgsOkOf({1})

ReadOkBlocks == ReadOkOf(BlockDocs)

NextBlocks ==
  \/ ParseFail
  \/ ShapeFail
  \/ ArgsOkUrl
  \/ NotFound
  \/ IsFile
  \/ ReadFail
  \/ ReadOkBlocks
  \/ Augment
  \/ Substitute

SpecBlocks == Init /\ [][NextBlocks]_vars

\* The same call on every readme of Docs, with the docs URL request.
NextUrl ==
  \/ ParseFail
  \/ ShapeFail
  \/ ArgsOkUrl
  \/ NotFound
  \/ IsFile
  \/ ReadFail
  \/ ReadOk
  \/ Augment
  \/ Substitute

SpecUrl == Init /\ [][NextUrl]_vars


(***************************************************************************)
(* Properties.                                                             *)
(***************************************************************************)

\* replace_all has run and readme holds its result.
Augmented == pc = "replace" \/ (pc = "done" /\ output.kind = "tokens")

\* docify has returned the rewritten text.
Returned == pc = "done" /\ output.kind = "tokens"

Kind(ss, j) == Segments[ss[j]].kind

Kinds(ss) == {Kind(ss, j) : j \in 1..Len(ss)}

NumKind(ss, k) == Cardinality({j \in 1..Len(ss) : Kind(ss, j) = k})

\* Index of the first and of the last character of segment j in the file.
SegStart(ss, j) == 1 + Len(DocText(SubSeq(ss, 1, j - 1)))

SegEnd(ss, j) == Len(DocText(SubSeq(ss, 1, j)))

Contains(d, w) == \E i \in 1..Len(d) : d[i] = w[1] /\ IsAt(d, i, w)

CountOcc(d, w) == Cardinality({i \in 1..Len(d) : d[i] = w[1] /\ IsAt(d, i, w)})

\* Index of the first character at or after q that is no line break.
SkipBreaks(d, q) ==
  LET rest == {i \in q..Len(d) : d[i] # CR /\ d[i] # LF}
  IN IF rest = {} THEN Len(d) + 1 ELSE Min(rest)

\* d, read from index p on, is the segments j.. of ss in their order, each rust
\* block with one thing added: right before its closing backticks, after line
\* breaks only, the marker and exactly one line break.
RECURSIVE MarkedFrom(_, _, _, _)
MarkedFrom(d, ss, j, p) ==
  IF j > Len(ss) THEN p = Len(d) + 1
  ELSE LET sg == Segments[ss[j]]
       IN IF sg.kind = "rust"
          THEN LET m == SkipBreaks(d, p + Len(sg.head))
                   after == m + Len(Marker)
               IN /\ IsAt(d, p, sg.head)
                  /\ IsAt(d, m, Marker)
                  /\ \E c \in 1..Len(NlAlt) :
                       /\ IsAt(d, after, NlAlt[c])
                       /\ IsAt(d, after + Len(NlAlt[c]), sg.tail)
                       /\ MarkedFrom(d, ss, j + 1, after + Len(NlAlt[c]) + Len(sg.tail))
          ELSE /\ IsAt(d, p, SegText(ss[j]))
               /\ MarkedFrom(d, ss, j + 1, p + Len(SegText(ss[j])))

\* C1: in a readme made of N rust/rs blocks whose body holds text, blocks with
\* other tags or none and prose, replace_all puts the marker in exactly N
\* places: one in each rust/rs block, as the line right before the closing
\* fence, none elsewhere, and the original text stays in its order.
C1_MarkerInEveryRustBlock ==
  (Augmented /\ Kinds(segs) \subseteq {"rust", "other", "text"}) =>
    /\ CountOcc(readme, Marker) = NumKind(segs, "rust")
    /\ MarkedFrom(readme, segs, 1, 1)

\* Three rust blocks and one block with another tag have been augmented.
C1_Witness ==
  /\ Augmented
  /\ NumKind(segs, "rust") = 3
  /\ NumKind(segs, "other") = 1
  /\ CountOcc(readme, Marker) = 3

\* The readmes of the concrete scenario: one rust block with line feeds, prose
\* with the docs URL around it, and the docs URL as the target.
Scenario ==
  /\ Returned
  /\ text = Pairs[1].from
  /\ replacement = Pairs[1].to
  /\ Kinds(segs) = {"rust", "text"}
  /\ NumKind(segs, "rust") = 1
  /\ \A j \in 1..Len(segs) : Kind(segs, j) = "rust" => Segments[segs[j]].nl = <<LF>>

\* The text the scenario expects when ins is what a block gains before its
\* closing fence: every block with ins added, every other segment with the
\* target replaced.
Expected(ss, ins) ==
  Concat([j \in 1..Len(ss) |->
            IF Kind(ss, j) = "rust"
            THEN Segments[ss[j]].head \o ins \o Segments[ss[j]].tail
            ELSE StrReplace(SegText(ss[j]), text, replacement)])

\* C5 as stated: in the scenario the output is the input with the marker and
\* one line feed added between the last body line and the closing fence and
\* with every occurrence of the target replaced, nothing else.
C5_MarkerLineOnly == Scenario => output.text = Expected(segs, Marker \o <<LF>>)

\* C5: in the scenario the output is the input with a line feed, the marker and
\* another line feed (an empty line and the marker line) added between the last
\* body line and the closing fence and with every occurrence of the target
\* replaced, nothing else.
C5_EmptyLineAndMarkerLine ==
  Scenario => output.text = Expected(segs, <<LF>> \o Marker \o <<LF>>)

\* The scenario with the docs URL before and after the block.
C5_Witness ==
  /\ Scenario
  /\ Len(segs) = 3
  /\ Kind(segs, 2) = "rust"
  /\ ~Contains(output.text, text)


\* No character of a occurs in b.
Disjoint(a, b) == \A i \in 1..Len(a) : \A j \in 1..Len(b) : a[i] # b[j]

\* C6 as stated: when target and replacement are not empty and the replacement
\* does not contain the target, replacing once more in the returned text
\* changes nothing.
C6_IdempotentWhenNotContained ==
  (Returned /\ text # <<>> /\ replacement # <<>> /\ ~Contains(replacement, text)) =>
    StrReplace(output.text, text, replacement) = output.text

\* C6: when target and replacement are not empty and share no character,
\* replacing once more in the returned text changes nothing.
C6_IdempotentWhenDisjoint ==
  (Returned /\ text # <<>> /\ replacement # <<>> /\ Disjoint(text, replacement)) =>
    StrReplace(output.text, text, replacement) = output.text

\* A request with no shared character has replaced at least two occurrences.
C6_Witness ==
  /\ Returned
  /\ text # <<>>
  /\ replacement # <<>>
  /\ Disjoint(text, replacement)
  /\ CountOcc(readme, text) >= 2
  /\ ~Contains(output.text, text)

\* The number of characters the template adds to match m.
InsertLen(m) == 2 * Len(m.nl) + Len(Marker)

\* The number of characters added to the first k matches of ms.
RECURSIVE AddedUpTo(_, _)
AddedUpTo(ms, k) == IF k = 0 THEN 0 ELSE AddedUpTo(ms, k - 1) + InsertLen(ms[k])

\* C7: a second replace_all over the result of the first matches the same
\* blocks, each with the same line break and with a body that already ends
\* with the marker, and adds the marker to each of them once more: the text
\* holds two more markers per matched block than the file, and in every
\* matched block the marker of the first pass is followed by that of the second
\* right before the closing fence.
C7_SecondPassAddsAgain ==
  pc = "replace" =>
    LET m1 == Matches(contents)
        m2 == Matches(readme)
        twice == ReplaceAll(readme)
    IN /\ Len(m2) = Len(m1)
       /\ CountOcc(twice, Marker) = CountOcc(contents, Marker) + 2 * Len(m1)
       /\ \A k \in 1..Len(m1) :
            /\ m2[k].start = m1[k].start + AddedUpTo(m1, k - 1)
            /\ m2[k].nl = m1[k].nl
            /\ IsAt(readme, m2[k].e - Len(Marker), Marker)
            /\ IsAt(twice, m2[k].e - Len(Marker) + AddedUpTo(m2, k - 1), Marker)
            /\ IsAt(twice, m2[k].e + 2 * Len(m2[k].nl) + AddedUpTo(m2, k - 1),
                    Marker \o m2[k].nl \o Fence)

\* Two blocks were matched and a second pass makes the text longer.
C7_Witness ==
  /\ pc = "replace"
  /\ Len(Matches(contents)) >= 2
  /\ ReplaceAll(readme) # readme

\* The argument list is something other than three string literals.
NotThreeLiterals(a) == Len(a) # 3 \/ \E i \in 1..Len(a) : a[i] # "lit"

\* C8 as stated: a call whose arguments are not three string literals returns
\* the error that states the expected shape, and has made no call to the file
\* system, replace_all or replace; a call that returns an error returns no text.
C8_ShapeErrorForEveryBadInput ==
  /\ (pc = "done" /\ NotThreeLiterals(input)) =>
       (output = CompileError("expected_shape") /\ calls = <<>>)
  /\ output.kind = "compile_error" =>
       (output.text = <<>> /\ "replace_all" \notin {calls[i] : i \in 1..Len(calls)})

\* C8: a call whose arguments are not three string literals returns an error
\* and has made no call to the file system, replace_all or replace; the error
\* states the expected shape when the arguments are string literals but not
\* three of them, and is the parser's own error otherwise.  A call that returns
\* an error returns no text and has not called replace_all or replace.
C8_ArgumentErrorBeforeFileAccess ==
  /\ (pc = "done" /\ NotThreeLiterals(input)) =>
       /\ output = CompileError(IF \A i \in 1..Len(input) : input[i] = "lit"
                                THEN "expected_shape" ELSE "syn")
       /\ calls = <<>>
       /\ contents = <<>>
       /\ readme = <<>>
  /\ output.kind = "compile_error" =>
       /\ pc = "done"
       /\ output.text = <<>>
       /\ readme = <<>>
       /\ \A i \in 1..Len(calls) : calls[i] \in {"is_file", "read_to_string"}

\* Two string literals were passed and the shape error came back.
C8_Witness ==
  /\ pc = "done"
  /\ input = <<"lit", "lit">>
  /\ output = CompileError("expected_shape")
  /\ calls = <<>>

\* C10: the returned text is the literal replace applied once to the result of
\* replace_all applied once to the file contents, and the calls were made in
\* that order.
C10_AugmentThenSubstitute ==
  Returned =>
    /\ readme = ReplaceAll(contents)
    /\ output.text = StrReplace(ReplaceAll(contents), text, replacement)
    /\ calls = <<"is_file", "read_to_string", "replace_all", "replace">>

\* The target occurs in the marker: every marker added is rewritten, and the
\* other order would have given another text.
C10_Witness ==
  /\ Returned
  /\ Contains(Marker, text)
  /\ Len(Matches(contents)) >= 1
  /\ ~Contains(output.text, Marker)
  /\ CountOcc(output.text, StrReplace(Marker, text, replacement)) = Len(Matches(contents))
  /\ output.text # ReplaceAll(StrReplace(contents, text, replacement))

\* The index in d before which the template adds its text for match m.
InsertPoint(m) == m.e + Len(m.nl)

\* The number of characters replace_all adds before index a of the file.
AddedBefore(ms, a) ==
  AddedUpTo(ms, Cardinality({k \in 1..Len(ms) : InsertPoint(ms[k]) < a}))

\* Segment j of the file stands unchanged in the augmented text.
Untouched(j) ==
  LET ms == Matches(contents)
      a == SegStart(segs, j)
      b == SegEnd(segs, j)
  IN /\ \A k \in 1..Len(ms) : InsertPoint(ms[k]) \notin a..b
     /\ IsAt(readme, a + AddedBefore(ms, a), SegText(segs[j]))

\* C2 as stated: whatever else the file holds, a block with another tag or none
\* is unchanged by replace_all: nothing is added inside it or right before its
\* opening or closing fence.
C2_OtherBlocksUntouched ==
  Augmented => \A j \in 1..Len(segs) : Kind(segs, j) = "other" => Untouched(j)

\* C3 as stated: a rust/rs fence pair without body lines is never matched: no
\* match starts at its opening fence and the pair is unchanged, whatever
\* follows it.
C3_EmptyPairNeverMatched ==
  Augmented =>
    \A j \in 1..Len(segs) : Kind(segs, j) = "empty" =>
      /\ \A k \in 1..Len(Matches(contents)) :
           Matches(contents)[k].start # SegStart(segs, j)
      /\ Untouched(j)

\* C4 as stated: in a file of blocks that each use one line break throughout,
\* every matched block gains the marker with line breaks of the block's own
\* kind and everything else is unchanged.
C4_LineBreaksOfTheBlock ==
  (Augmented /\ Kinds(segs) \subseteq {"rust", "blank", "other", "text"}) =>
    readme = Concat([j \in 1..Len(segs) |->
                       LET sg == Segments[segs[j]]
                       IN IF sg.kind \in {"rust", "blank"}
                          THEN sg.head \o sg.nl \o Marker \o sg.nl \o sg.tail
                          ELSE sg.head \o sg.tail])

IsBreak(c) == c \in {CR, LF}

\* C9 as stated: every match starts at the start of a line and ends at the end
\* of a line.
C9_FencesAreWholeLines ==
  Augmented =>
    \A k \in 1..Len(Matches(contents)) :
      LET m == Matches(contents)[k]
      IN /\ m.start = 1 \/ IsBreak(contents[m.start - 1])
         /\ m.stop = Len(contents) \/ IsBreak(contents[m.stop + 1])

====
